---- MODULE Spec2Model ----
(***************************************************************************)
(* Model of flask-caja-app (src/app.py): the relational store (User,       *)
(* Category, Animal), the login sessions and every request handler.        *)
(*                                                                         *)
(* Text values (emails, category names, tags, form fields) are sequences   *)
(* of one-character strings so that strip(), lower() and the regular       *)
(* expressions of the source are computed, character by character.         *)
(* None and the empty string are both the empty sequence: the source only  *)
(* ever tests such values for truthiness.                                  *)
(*                                                                         *)
(* A request handler runs to completion against the store (one action per  *)
(* handler).  resp records the handler that ran last, its outcome, the id   *)
(* of the row it was asked for and the rows of the table it rendered.      *)
(*                                                                         *)
(* Where the interleaving of two executions matters (two processes         *)
(* starting, two creates of an animal) the code is also modelled step by   *)
(* step: inflight holds, for every worker, how far its execution has come  *)
(* and what it has read so far.                                            *)
(*                                                                         *)
(* Animal columns that no handler ever branches on (comment, origin,       *)
(* diagnosis, lot, sex, tag_previous, read_date, last_seen, birth_date,    *)
(* created_at, updated_at) are left out of the rows.                       *)
(***************************************************************************)
EXTENDS Integers, Sequences, FiniteSets, TLC

VARIABLES users, categories, animals, session, running, today, resp, inflight

vars == <<users, categories, animals, session, running, today, resp, inflight>>

----------------------------------------------------------------------------
(* Bounds of the model *)

MaxUsers == 2
MaxCategories == 2
MaxAnimals == 2
NumClients == 1
NumSeed == 1
MaxDay == 3
NumWorkers == 2

Clients == 1..NumClients

\* the processes / request threads whose steps may interleave
Workers == 1..NumWorkers

----------------------------------------------------------------------------
(* Text *)

Whitespace == {" ", "\t"}

Digits == {"0", "1", "2", "3", "4", "5", "6", "7", "8", "9"}

NoText == <<>>

SetMin(S) == CHOOSE x \in S : \A y \in S : x <= y

SetMax(S) == CHOOSE x \in S : \A y \in S : x >= y

\* str.strip()
Strip(s) ==
  LET keep == {i \in 1..Len(s) : s[i] \notin Whitespace}
  IN  IF keep = {} THEN <<>> ELSE SubSeq(s, SetMin(keep), SetMax(keep))

LowerChar(ch) ==
  CASE ch = "A" -> "a"
    [] ch = "B" -> "b"
    [] ch = "U" -> "u"
    [] ch = "V" -> "v"
    [] ch = "T" -> "t"
    [] OTHER -> ch

\* str.lower()
Lower(s) == [i \in 1..Len(s) |-> LowerChar(s[i])]

----------------------------------------------------------------------------
(* Passwords: werkzeug's generate_password_hash / check_password_hash.  A  *)
(* hash verifies exactly the password it was derived from and is never     *)
(* empty.                                                                  *)

NoHash == <<>>

generate_password_hash(password) == <<"pbkdf2", password>>

check_password_hash(pwhash, password) == pwhash = <<"pbkdf2", password>>

\* User.check_password, with the guard on an empty hash left out
check_password_unguarded(u, password) ==
  u.password_hash = NoHash \/ check_password_hash(u.password_hash, password)

\* User.check_password
check_password(u, password) ==
  IF u.password_hash = NoHash THEN FALSE
  ELSE check_password_hash(u.password_hash, password)

\* User.set_password
set_password(u, password) ==
  [u EXCEPT !.password_hash = generate_password_hash(password)]

----------------------------------------------------------------------------
(* The store *)

ADMIN_LOCAL == <<"a", "d", "m", "i", "n", "@", "l", "o", "c", "a", "l">>

SEED_CATEGORIES ==
  << <<"V", "a", "c", "a">>,
     <<"V", "a", "c", "a", " ", "I", "n", "v", "e", "r", "n", "a", "d", "a">>,
     <<"T", "o", "r", "o">>,
     <<"N", "o", "v", ".", " ", "1", " ", "a", "ñ", "o">>,
     <<"V", "a", "q", ".", " ", "1", " ", "a", "ñ", "o">>,
     <<"T", "e", "r", "n", "e", "r", "o", " ", "M">>,
     <<"T", "e", "r", "n", "e", "r", "a", " ", "H">>,
     <<"V", "a", "q", ".", " ", "2", "+">>,
     <<"V", "a", "q", ".", " ", "3">> >>

\* kg/day, in tenths
DEFAULT_DAILY_GAIN == 6

\* the id a new row gets: SQLite's rowid of an INTEGER PRIMARY KEY
NextId(rows) == IF rows = {} THEN 1 ELSE SetMax({r.id : r \in rows}) + 1

\* User.query.filter_by(is_admin=True).order_by(User.id.asc())
Admins(us) == {u \in us : u.is_admin}

\* ... .first() of the query above, when there is one
FirstAdmin(us) == CHOOSE u \in Admins(us) : \A v \in Admins(us) : u.id <= v.id

\* User.query.filter_by(email=email)
UsersByEmail(us, email) == {u \in us : u.email = email}

\* the session's user: flask_login's current_user through load_user
Authenticated(c) == \E u \in users : u.id = session[c]

CurrentUser(c) == CHOOSE u \in users : u.id = session[c]

\* require_admin, checking only that the session is authenticated
require_admin_any_user(c) == Authenticated(c)

require_admin(c) == Authenticated(c) /\ CurrentUser(c).is_admin

admin_needs_password_setup ==
  Admins(users) = {} \/ FirstAdmin(users).password_hash = NoHash

Resp(op, outcome, target) ==
  [op |-> op, outcome |-> outcome, target |-> target, rows |-> <<>>]

\* the answer of a handler that renders a page with a table: rows are the
\* ids of the listed rows, in the order of the query
Listed(op, outcome, rows) == [op |-> op, outcome |-> outcome, target |-> 0, rows |-> rows]

\* the characters of the model in the order of their UTF-8 encoding, which
\* is the order of SQLite's default (BINARY) collation
CharOrder ==
  << "\t", " ", "+", ".", "0", "1", "2", "3", "4", "5", "6", "7", "8", "9", "@",
     "A", "B", "C", "D", "E", "F", "G", "H", "I", "J", "K", "L", "M", "N", "O", "P",
     "Q", "R", "S", "T", "U", "V", "W", "X", "Y", "Z",
     "a", "b", "c", "d", "e", "f", "g", "h", "i", "j", "k", "l", "m", "n", "o", "p",
     "q", "r", "s", "t", "u", "v", "w", "x", "y", "z", "ñ" >>

CharCode(ch) == CHOOSE i \in 1..Len(CharOrder) : CharOrder[i] = ch

\* s < t as SQLite compares two texts
TextBefore(s, t) ==
  \E i \in 1..Len(t) :
    /\ Len(s) >= i - 1
    /\ \A j \in 1..(i - 1) : s[j] = t[j]
    /\ Len(s) = i - 1 \/ CharCode(s[i]) < CharCode(t[i])

\* Category.query.order_by(Category.is_active.desc(), Category.name.asc())
CategoryListing ==
  LET s == CHOOSE q \in [1..Cardinality(categories) -> categories] :
             \A i, j \in 1..Cardinality(categories) :
               i < j => \/ q[i].is_active /\ ~q[j].is_active
                        \/ q[i].is_active = q[j].is_active /\ TextBefore(q[i].name, q[j].name)
  IN  [i \in 1..Cardinality(categories) |-> s[i].id]

\* Animal.query.order_by(Animal.id.desc()), no filter given
AnimalListing ==
  LET s == CHOOSE q \in [1..Cardinality(animals) -> animals] :
             \A i, j \in 1..Cardinality(animals) : i < j => q[i].id > q[j].id
  IN  [i \in 1..Cardinality(animals) |-> s[i].id]

\* User.query.order_by(User.id.asc())
UserListing ==
  LET s == CHOOSE q \in [1..Cardinality(users) -> users] :
             \A i, j \in 1..Cardinality(users) : i < j => q[i].id < q[j].id
  IN  [i \in 1..Cardinality(users) |-> s[i].id]

\* the rows the startup block leaves in a store that held `us` and `cs`
SeedAdmin(us) ==
  IF Admins(us) = {}
  THEN us \cup {[id |-> NextId(us), email |-> ADMIN_LOCAL, password_hash |-> NoHash,
                 is_admin |-> TRUE, is_active_flag |-> TRUE]}
  ELSE us

SeedCategories(cs) ==
  IF cs = {}
  THEN {[id |-> i, name |-> SEED_CATEGORIES[i], is_active |-> TRUE,
         daily_gain_kg |-> DEFAULT_DAILY_GAIN] : i \in 1..NumSeed}
  ELSE cs

\* a worker that is executing nothing
Idle == [op |-> "none", pc |-> "idle", seen |-> FALSE, data |-> <<>>]

Init ==
  /\ users = SeedAdmin({})
  /\ categories = SeedCategories({})
  /\ animals = {}
  /\ session = [c \in Clients |-> 0]
  /\ running = TRUE
  /\ today = 0
  /\ resp = Resp("startup", "started", 0)
  /\ inflight = [w \in Workers |-> Idle]

\* The process is started again on the same store: the module-level block
\* runs once more.  The INSERT of admin@local fails on the UNIQUE email
\* column when another row holds that email, and the process does not start.
startup ==
  /\ Cardinality(users) < MaxUsers \/ Admins(users) # {}
  /\ IF Admins(users) = {} /\ UsersByEmail(users, ADMIN_LOCAL) # {}
     THEN /\ running' = FALSE
          /\ resp' = Resp("startup", "integrity_error", 0)
          /\ UNCHANGED <<users, categories>>
     ELSE /\ running' = TRUE
          /\ users' = SeedAdmin(users)
          /\ categories' = SeedCategories(categories)
          /\ resp' = Resp("startup", "started", 0)
  /\ UNCHANGED <<animals, session, today, inflight>>

\* The startup block step by step, for processes that start at the same
\* time on one store.  The store before the first start is empty.
InitFresh ==
  /\ users = {}
  /\ categories = {}
  /\ animals = {}
  /\ session = [c \in Clients |-> 0]
  /\ running = FALSE
  /\ today = 0
  /\ resp = Resp("none", "none", 0)
  /\ inflight = [w \in Workers |-> Idle]

\* admin = User.query.filter_by(is_admin=True)...first()
startup_query_admin(w) ==
  /\ inflight[w].pc = "idle"
  /\ inflight' = [inflight EXCEPT ![w] =
                    [op |-> "startup", pc |-> "admin_queried",
                     seen |-> Admins(users) # {}, data |-> <<>>]]
  /\ UNCHANGED <<users, categories, animals, session, running, today, resp>>

\* if not admin: db.session.add(admin); db.session.commit().  The INSERT
\* violates UNIQUE(user.email) when a row holds admin@local by now; the
\* IntegrityError is not caught and ends the process.
startup_insert_admin(w) ==
  /\ inflight[w].pc = "admin_queried"
  /\ IF inflight[w].seen
     THEN /\ inflight' = [inflight EXCEPT ![w].pc = "admin_done"]
          /\ UNCHANGED <<users, resp>>
     ELSE IF UsersByEmail(users, ADMIN_LOCAL) # {}
     THEN /\ inflight' = [inflight EXCEPT ![w].pc = "crashed"]
          /\ resp' = Resp("startup", "integrity_error", 0)
          /\ UNCHANGED users
     ELSE /\ Cardinality(users) < MaxUsers
          /\ users' = users \cup {[id |-> NextId(users), email |-> ADMIN_LOCAL,
                                    password_hash |-> NoHash, is_admin |-> TRUE,
                                    is_active_flag |-> TRUE]}
          /\ inflight' = [inflight EXCEPT ![w].pc = "admin_done"]
          /\ UNCHANGED resp
  /\ UNCHANGED <<categories, animals, session, running, today>>

\* Category.query.count() == 0
startup_count_categories(w) ==
  /\ inflight[w].pc = "admin_done"
  /\ inflight' = [inflight EXCEPT ![w].pc = "categories_counted",
                                   ![w].seen = (categories = {})]
  /\ UNCHANGED <<users, categories, animals, session, running, today, resp>>

\* the INSERTs of the seed categories and the commit (UNIQUE(category.name)),
\* after which the process serves requests
startup_insert_categories(w) ==
  /\ inflight[w].pc = "categories_counted"
  /\ IF inflight[w].seen /\ \E k \in categories, i \in 1..NumSeed : k.name = SEED_CATEGORIES[i]
     THEN /\ inflight' = [inflight EXCEPT ![w].pc = "crashed"]
          /\ resp' = Resp("startup", "integrity_error", 0)
          /\ UNCHANGED <<categories, running>>
     ELSE /\ categories' =
               IF inflight[w].seen
               THEN categories \cup
                      {[id |-> NextId(categories) + i - 1, name |-> SEED_CATEGORIES[i],
                        is_active |-> TRUE, daily_gain_kg |-> DEFAULT_DAILY_GAIN] :
                         i \in 1..NumSeed}
               ELSE categories
          /\ inflight' = [inflight EXCEPT ![w].pc = "serving"]
          /\ running' = TRUE
          /\ resp' = Resp("startup", "started", 0)
  /\ UNCHANGED <<users, animals, session, today>>

\* a process that serves, or one that has crashed, is gone
process_exit(w) ==
  /\ inflight[w].op = "startup" /\ inflight[w].pc \in {"serving", "crashed"}
  /\ inflight' = [inflight EXCEPT ![w] = Idle]
  /\ running' = \E v \in Workers \ {w} : inflight[v].op = "startup" /\ inflight[v].pc = "serving"
  /\ UNCHANGED <<users, categories, animals, session, today, resp>>

\* date.today() moves on to the next day
day_passes ==
  /\ today < MaxDay
  /\ today' = today + 1
  /\ resp' = Resp("day_passes", "next_day", 0)
  /\ UNCHANGED <<users, categories, animals, session, running, inflight>>

----------------------------------------------------------------------------
(* Validation and parsing *)

BREED_OPTIONS ==
  { <<"A", "b", "e", "r", "d", "e", "e", "n", " ", "A", "n", "g", "u", "s">>,
    <<"H", "e", "r", "e", "f", "o", "r", "d">>,
    <<"B", "r", "a", "f", "o", "r", "d">>,
    <<"B", "r", "a", "n", "g", "u", "s">>,
    <<"H", "o", "l", "a", "n", "d", "o">>,
    <<"C", "r", "i", "o", "l", "l", "o">>,
    <<"O", "t", "r", "a">> }

DigitVal(ch) ==
  CASE ch = "0" -> 0 [] ch = "1" -> 1 [] ch = "2" -> 2 [] ch = "3" -> 3 [] ch = "4" -> 4
    [] ch = "5" -> 5 [] ch = "6" -> 6 [] ch = "7" -> 7 [] ch = "8" -> 8 [] ch = "9" -> 9

AllDigits(s) == \A i \in 1..Len(s) : s[i] \in Digits

RECURSIVE NumVal(_)
NumVal(s) == IF s = <<>> THEN 0 ELSE 10 * NumVal(SubSeq(s, 1, Len(s) - 1)) + DigitVal(s[Len(s)])

\* str.replace(",", ".")
CommaToDot(s) == [i \in 1..Len(s) |-> IF s[i] = "," THEN "." ELSE s[i]]

\* re.sub(r"\s+", " ", s)
RECURSIVE CollapseWs(_)
CollapseWs(s) ==
  IF s = <<>> THEN <<>>
  ELSE IF Head(s) \in Whitespace
  THEN IF Len(s) > 1 /\ s[2] \in Whitespace
       THEN CollapseWs(Tail(s))
       ELSE <<" ">> \o CollapseWs(Tail(s))
  ELSE <<Head(s)>> \o CollapseWs(Tail(s))

\* TAG_RE = ^[0-9 ]+$
TAG_RE(s) == s # <<>> /\ \A i \in 1..Len(s) : s[i] \in Digits \cup {" "}

\* WEIGHT_RE = ^\d{1,4}([.,]\d)?$
WEIGHT_RE(s) ==
  \/ Len(s) \in 1..4 /\ AllDigits(s)
  \/ /\ Len(s) \in 3..6
     /\ AllDigits(SubSeq(s, 1, Len(s) - 2))
     /\ s[Len(s) - 1] \in {".", ","}
     /\ s[Len(s)] \in Digits

\* clean_tag with the whitespace left as typed (no strip, no collapse)
clean_tag_raw(tag) == IF TAG_RE(tag) THEN tag ELSE NoText

\* clean_tag: the normalised tag, or NoText for None
clean_tag(tag) ==
  LET raw == Strip(tag)
  IN  IF raw = <<>> THEN NoText
      ELSE IF ~TAG_RE(raw) THEN NoText
      ELSE CollapseWs(raw)

\* parse_weight_1d: <<tenths of a kg>>, or <<>> for None
parse_weight_1d(s) ==
  LET raw == Strip(s)
  IN  IF raw = <<>> THEN <<>>
      ELSE IF ~WEIGHT_RE(raw) THEN <<>>
      ELSE IF AllDigits(raw) THEN <<10 * NumVal(raw)>>
      ELSE <<10 * NumVal(SubSeq(raw, 1, Len(raw) - 2)) + DigitVal(raw[Len(raw)])>>

IsLeap(y) == y % 4 = 0 /\ (y % 100 # 0 \/ y % 400 = 0)

DaysInMonth(m, y) ==
  IF m = 2 THEN (IF IsLeap(y) THEN 29 ELSE 28)
  ELSE IF m \in {4, 6, 9, 11} THEN 30 ELSE 31

RECURSIVE DaysBeforeMonth(_, _)
DaysBeforeMonth(m, y) == IF m = 1 THEN 0 ELSE DaysBeforeMonth(m - 1, y) + DaysInMonth(m - 1, y)

\* a date as the number of days since 01/01/2000 (date.toordinal, shifted)
Ordinal(d, m, y) ==
  (IF y >= 2000
   THEN 365 * (y - 2000) + Cardinality({k \in 2000..(y - 1) : IsLeap(k)})
   ELSE 0 - (365 * (2000 - y) + Cardinality({k \in y..1999 : IsLeap(k)})))
  + DaysBeforeMonth(m, y) + (d - 1)

\* parse_date_ddmmyy (DATE_FMT = %d/%m/%y) on texts whose day, month and
\* year are written with two digits each: <<ordinal>>, or <<>> for None.
\* %y: 00..68 is 2000..2068, 69..99 is 1969..1999.
parse_date_ddmmyy(s0) ==
  LET s == Strip(s0)
  IN  IF s = <<>> THEN <<>>
      ELSE IF ~(Len(s) = 8 /\ s[3] = "/" /\ s[6] = "/"
                /\ AllDigits(SubSeq(s, 1, 2)) /\ AllDigits(SubSeq(s, 4, 5))
                /\ AllDigits(SubSeq(s, 7, 8)))
      THEN <<>>
      ELSE LET d == NumVal(SubSeq(s, 1, 2))
               m == NumVal(SubSeq(s, 4, 5))
               yy == NumVal(SubSeq(s, 7, 8))
               y == IF yy <= 68 THEN 2000 + yy ELSE 1900 + yy
           IN  IF m \in 1..12 /\ d >= 1 /\ d <= DaysInMonth(m, y)
               THEN <<Ordinal(d, m, y)>>
               ELSE <<>>

\* float(gain_raw) on texts of the form digits[.digit]: <<tenths>>, or <<>>
\* for the ValueError every other text of the model's inputs raises
ParseGain(s) ==
  IF s # <<>> /\ AllDigits(s) THEN <<10 * NumVal(s)>>
  ELSE IF Len(s) >= 3 /\ AllDigits(SubSeq(s, 1, Len(s) - 2)) /\ s[Len(s) - 1] = "."
          /\ s[Len(s)] \in Digits
  THEN <<10 * NumVal(SubSeq(s, 1, Len(s) - 2)) + DigitVal(s[Len(s)])>>
  ELSE <<>>

\* active_category_names / all_category_names, as sets
active_category_names == {k.name : k \in {x \in categories : x.is_active}}

all_category_names == {k.name : k \in categories}

\* get_gain: Category.query.filter_by(name=cat_name).first()
get_gain(cat_name) ==
  IF cat_name = NoText THEN DEFAULT_DAILY_GAIN
  ELSE IF \E k \in categories : k.name = cat_name
  THEN (CHOOSE k \in categories : k.name = cat_name).daily_gain_kg
  ELSE DEFAULT_DAILY_GAIN

\* Animal.compute_estimated_weight: <<tenths>>, or <<>> for None
compute_estimated_weight(a, daily_gain_kg) ==
  IF a.weight = <<>> \/ a.weight = <<0>> \/ a.weigh_date = <<>> THEN <<>>
  ELSE LET days == today - a.weigh_date[1]
       IN  <<a.weight[1] + (IF days > 0 THEN days ELSE 0) * daily_gain_kg>>

----------------------------------------------------------------------------
(* Authentication and menu *)

index(c) ==
  /\ running
  /\ resp' = Resp("index",
                  IF admin_needs_password_setup THEN "redirect_setup_admin"
                  ELSE IF Authenticated(c) THEN "redirect_menu"
                  ELSE "redirect_login", 0)
  /\ UNCHANGED <<users, categories, animals, session, running, today, inflight>>

\* SetupUsers, configuring the placeholder's email without set_password
SetupUsers_nopassword(email, password) ==
  LET existing == UsersByEmail(users, email)
      promote(u) == IF u.password_hash = NoHash
                    THEN set_password([u EXCEPT !.is_admin = TRUE], password)
                    ELSE [u EXCEPT !.is_admin = TRUE]
  IN  IF Admins(users) = {}
      THEN IF existing # {}
           THEN {IF u \in existing THEN promote(u) ELSE u : u \in users}
           ELSE users \cup {set_password([id |-> NextId(users), email |-> email,
                                          password_hash |-> NoHash, is_admin |-> TRUE,
                                          is_active_flag |-> TRUE], password)}
      ELSE LET admin == FirstAdmin(users)
           IN  IF \E u \in existing : u.id # admin.id
               THEN {IF u \in existing THEN promote(u) ELSE u : u \in users \ {admin}}
               ELSE (users \ {admin}) \cup {[admin EXCEPT !.email = email]}

\* SetupUsers, promoting the other row without deleting the placeholder
SetupUsers_keepplaceholder(email, password) ==
  LET existing == UsersByEmail(users, email)
      promote(u) == IF u.password_hash = NoHash
                    THEN set_password([u EXCEPT !.is_admin = TRUE], password)
                    ELSE [u EXCEPT !.is_admin = TRUE]
  IN  IF Admins(users) = {}
      THEN IF existing # {}
           THEN {IF u \in existing THEN promote(u) ELSE u : u \in users}
           ELSE users \cup {set_password([id |-> NextId(users), email |-> email,
                                          password_hash |-> NoHash, is_admin |-> TRUE,
                                          is_active_flag |-> TRUE], password)}
      ELSE LET admin == FirstAdmin(users)
           IN  IF \E u \in existing : u.id # admin.id
               THEN {IF u \in existing THEN promote(u) ELSE u : u \in users}
               ELSE (users \ {admin})
                      \cup {set_password([admin EXCEPT !.email = email], password)}

\* SetupUsers, giving the submitted password to every row it promotes
SetupUsers_resetpassword(email, password) ==
  LET existing == UsersByEmail(users, email)
      promote(u) == set_password([u EXCEPT !.is_admin = TRUE], password)
  IN  IF Admins(users) = {}
      THEN IF existing # {}
           THEN {IF u \in existing THEN promote(u) ELSE u : u \in users}
           ELSE users \cup {set_password([id |-> NextId(users), email |-> email,
                                          password_hash |-> NoHash, is_admin |-> TRUE,
                                          is_active_flag |-> TRUE], password)}
      ELSE LET admin == FirstAdmin(users)
           IN  IF \E u \in existing : u.id # admin.id
               THEN {IF u \in existing THEN promote(u) ELSE u : u \in users \ {admin}}
               ELSE (users \ {admin})
                      \cup {set_password([admin EXCEPT !.email = email], password)}

\* the POST branch of setup_admin, once email and password are non-empty:
\* the User table it commits
SetupUsers(email, password) ==
  LET existing == UsersByEmail(users, email)
      promote(u) == IF u.password_hash = NoHash
                    THEN set_password([u EXCEPT !.is_admin = TRUE], password)
                    ELSE [u EXCEPT !.is_admin = TRUE]
  IN  IF Admins(users) = {}
      THEN IF existing # {}
           THEN {IF u \in existing THEN promote(u) ELSE u : u \in users}
           ELSE users \cup {set_password([id |-> NextId(users), email |-> email,
                                          password_hash |-> NoHash, is_admin |-> TRUE,
                                          is_active_flag |-> TRUE], password)}
      ELSE LET admin == FirstAdmin(users)
           IN  IF \E u \in existing : u.id # admin.id
               THEN {IF u \in existing THEN promote(u) ELSE u : u \in users \ {admin}}
               ELSE (users \ {admin})
                      \cup {set_password([admin EXCEPT !.email = email], password)}

\* the validation of the submitted form, testing the email alone
SetupFormValid_emailonly(email, password) == email # NoText

\* `if not email or not password` of setup_admin, negated
SetupFormValid(email, password) == email # NoText /\ password # ""

\* the id of the admin row setup_admin loads first, 0 when there is none
SetupAdminId == IF Admins(users) = {} THEN 0 ELSE FirstAdmin(users).id

setup_admin(c, method, raw_email, raw_password) ==
  /\ running
  /\ IF Admins(users) # {} /\ FirstAdmin(users).password_hash # NoHash
     THEN /\ resp' = Resp("setup_admin", "redirect_login", SetupAdminId)
          /\ UNCHANGED users
     ELSE IF method = "POST"
     THEN LET email == Lower(Strip(raw_email))
              password == raw_password
          IN  IF ~SetupFormValid(email, password)
              THEN /\ resp' = Resp("setup_admin", "validation_error", SetupAdminId)
                   /\ UNCHANGED users
              ELSE /\ Cardinality(SetupUsers(email, password)) <= MaxUsers
                   /\ users' = SetupUsers(email, password)
                   /\ resp' = Resp("setup_admin", "success", SetupAdminId)
     ELSE /\ resp' = Resp("setup_admin", "render", SetupAdminId)
          /\ UNCHANGED users
  /\ UNCHANGED <<categories, animals, session, running, today, inflight>>

\* the id of the row whose email a submitted email names, 0 when none does
Addressed(us, raw_email) ==
  IF UsersByEmail(us, Lower(Strip(raw_email))) = {} THEN 0
  ELSE (CHOOSE u \in UsersByEmail(us, Lower(Strip(raw_email))) : TRUE).id

\* the condition under which login() calls login_user
LoginAccepts(u, password) ==
  u.is_active_flag /\ u.password_hash # NoHash /\ check_password(u, password)

\* login() without the redirect to the setup screen and comparing through
\* a check that takes a missing hash for a match
LoginOutcome_unguarded(method, raw_email, raw_password) ==
  IF method = "POST"
  THEN IF \E u \in UsersByEmail(users, Lower(Strip(raw_email))) :
            u.is_active_flag /\ check_password_unguarded(u, raw_password)
       THEN "success" ELSE "invalid_credentials"
  ELSE "render"

\* what login() answers
LoginOutcome(method, raw_email, raw_password) ==
  IF admin_needs_password_setup THEN "redirect_setup_admin"
  ELSE IF method = "POST"
  THEN IF \E u \in UsersByEmail(users, Lower(Strip(raw_email))) :
            LoginAccepts(u, raw_password)
       THEN "success" ELSE "invalid_credentials"
  ELSE "render"

login(c, method, raw_email, raw_password) ==
  /\ running
  /\ resp' = Resp("login", LoginOutcome(method, raw_email, raw_password),
                  Addressed(users, raw_email))
  /\ IF LoginOutcome(method, raw_email, raw_password) = "success"
     THEN session' = [session EXCEPT ![c] = Addressed(users, raw_email)]
     ELSE UNCHANGED session
  /\ UNCHANGED <<users, categories, animals, running, today, inflight>>

logout(c) ==
  /\ running
  /\ IF Authenticated(c)
     THEN /\ session' = [session EXCEPT ![c] = 0]
          /\ resp' = Resp("logout", "redirect_login", 0)
     ELSE /\ resp' = Resp("logout", "unauthorized_redirect_login", 0)
          /\ UNCHANGED session
  /\ UNCHANGED <<users, categories, animals, running, today, inflight>>

menu(c) ==
  /\ running
  /\ resp' = Resp("menu",
                  IF Authenticated(c) THEN "render" ELSE "unauthorized_redirect_login", 0)
  /\ UNCHANGED <<users, categories, animals, session, running, today, inflight>>

----------------------------------------------------------------------------
(* Categories (admin only) *)

MaxNameLen == 30

\* the checks of categories() / category_edit() without the lookup of a row
\* that already has the name
CategoryFormOutcome_nolookup(name, gain, others) ==
  IF name = NoText THEN "validation_error"
  ELSE IF Len(name) > MaxNameLen THEN "validation_error"
  ELSE IF gain = <<>> \/ gain[1] < 0 \/ gain[1] > 30 THEN "validation_error"
  ELSE "success"

\* the outcome of the checks of categories() / category_edit() on a POST;
\* `others` are the rows a duplicate name is looked for in
CategoryFormOutcome(name, gain, others) ==
  IF name = NoText THEN "validation_error"
  ELSE IF Len(name) > MaxNameLen THEN "validation_error"
  ELSE IF \E k \in others : k.name = name THEN "conflict"
  ELSE IF gain = <<>> \/ gain[1] < 0 \/ gain[1] > 30 THEN "validation_error"
  ELSE "success"

categories_view(c, method, raw_name, raw_gain) ==
  /\ running
  /\ IF ~Authenticated(c)
     THEN /\ resp' = Resp("categories", "unauthorized_redirect_login", 0)
          /\ UNCHANGED categories
     ELSE IF ~require_admin(c)
     THEN /\ resp' = Resp("categories", "forbidden_redirect", 0)
          /\ UNCHANGED categories
     ELSE IF method = "POST"
     THEN LET name == Strip(raw_name)
              gain == ParseGain(CommaToDot(Strip(
                        IF raw_gain = NoText THEN <<"0", ".", "6">> ELSE raw_gain)))
              outcome == CategoryFormOutcome(name, gain, categories)
          IN  /\ resp' = IF outcome = "success" THEN Resp("categories", outcome, 0)
                           ELSE Listed("categories", outcome, CategoryListing)
              /\ IF outcome = "success"
                 THEN /\ Cardinality(categories) < MaxCategories
                      /\ categories' = categories \cup
                           {[id |-> NextId(categories), name |-> name, is_active |-> TRUE,
                             daily_gain_kg |-> gain[1]]}
                 ELSE UNCHANGED categories
     ELSE /\ resp' = Listed("categories", "render", CategoryListing)
          /\ UNCHANGED categories
  /\ UNCHANGED <<users, animals, session, running, today, inflight>>

category_toggle(c, cat_id) ==
  /\ running
  /\ IF ~Authenticated(c)
     THEN /\ resp' = Resp("category_toggle", "unauthorized_redirect_login", cat_id)
          /\ UNCHANGED categories
     ELSE IF ~require_admin(c)
     THEN /\ resp' = Resp("category_toggle", "forbidden_redirect", cat_id)
          /\ UNCHANGED categories
     ELSE IF ~\E k \in categories : k.id = cat_id
     THEN /\ resp' = Resp("category_toggle", "not_found", cat_id)
          /\ UNCHANGED categories
     ELSE /\ categories' = {IF k.id = cat_id THEN [k EXCEPT !.is_active = ~k.is_active]
                            ELSE k : k \in categories}
          /\ resp' = Resp("category_toggle", "success", cat_id)
  /\ UNCHANGED <<users, animals, session, running, today, inflight>>

category_edit(c, cat_id, method, raw_name, raw_gain) ==
  /\ running
  /\ IF ~Authenticated(c)
     THEN /\ resp' = Resp("category_edit", "unauthorized_redirect_login", cat_id)
          /\ UNCHANGED categories
     ELSE IF ~require_admin(c)
     THEN /\ resp' = Resp("category_edit", "forbidden_redirect", cat_id)
          /\ UNCHANGED categories
     ELSE IF ~\E k \in categories : k.id = cat_id
     THEN /\ resp' = Resp("category_edit", "not_found", cat_id)
          /\ UNCHANGED categories
     ELSE IF method = "POST"
     THEN LET new_name == Strip(raw_name)
              gain == ParseGain(CommaToDot(Strip(raw_gain)))
              outcome == CategoryFormOutcome(new_name, gain,
                                             {k \in categories : k.id # cat_id})
          IN  /\ resp' = Resp("category_edit", outcome, cat_id)
              /\ IF outcome = "success"
                 THEN categories' =
                        {IF k.id = cat_id
                         THEN [k EXCEPT !.name = new_name, !.daily_gain_kg = gain[1]]
                         ELSE k : k \in categories}
                 ELSE UNCHANGED categories
     ELSE /\ resp' = Resp("category_edit", "render", cat_id)
          /\ UNCHANGED categories
  /\ UNCHANGED <<users, animals, session, running, today, inflight>>

----------------------------------------------------------------------------
(* Animals *)

\* the category check of _validate_and_collect_animal_form without the
\* exception for the animal's own category
CategoryAccepted_noexception(cat, for_edit, current_category) ==
  cat = NoText \/ cat \in active_category_names

\* the category check accepting the name of any Category row
CategoryAccepted_anyrow(cat, for_edit, current_category) ==
  cat = NoText \/ cat \in all_category_names

\* the category check of _validate_and_collect_animal_form
CategoryAccepted(cat, for_edit, current_category) ==
  IF cat # NoText
  THEN IF cat \notin active_category_names
       THEN for_edit /\ current_category # NoText /\ cat = current_category
            /\ cat \in all_category_names
       ELSE TRUE
  ELSE TRUE

\* _validate_and_collect_animal_form: [error, data]; error is NoText for None
validate_and_collect_animal_form(form, for_edit, current_category) ==
  LET tag_current == clean_tag(form.tag_current)
      weight == parse_weight_1d(form.weight)
      est_weight_today == parse_weight_1d(form.est_weight_today)
      weigh_date == parse_date_ddmmyy(form.weigh_date)
      cat == Strip(form.category)
      breed == Strip(form.breed)
      data == [tag_current |-> tag_current, weight |-> weight, weigh_date |-> weigh_date,
               est_weight_today |-> est_weight_today, category |-> cat, breed |-> breed]
      error == IF tag_current = NoText THEN "tag"
               ELSE IF form.weigh_date # NoText /\ weigh_date = <<>> THEN "weigh_date"
               ELSE IF ~CategoryAccepted(cat, for_edit, current_category) THEN "category"
               ELSE IF breed # NoText /\ breed \notin BREED_OPTIONS THEN "breed"
               ELSE ""
  IN  [error |-> error, data |-> data]

\* the estimate a write stores: the submitted one, else the computed one
WithEstimate(a) ==
  IF a.est_weight_today = <<>>
  THEN [a EXCEPT !.est_weight_today = compute_estimated_weight(a, get_gain(a.category))]
  ELSE a

\* the duplicate-tag lookup finding no row
TagTaken_never(tag, others) == FALSE

\* Animal.query.filter_by(tag_current=...) over `others`
TagTaken(tag, others) == \E b \in others : b.tag_current = tag

\* the "Estimado hoy" cell of a row of the animal list: the stored estimate,
\* else the one computed now, else nothing
ShownEstimate(a) ==
  IF a.est_weight_today # <<>> THEN a.est_weight_today
  ELSE compute_estimated_weight(a, get_gain(a.category))

animals_list(c) ==
  /\ running
  /\ resp' = IF Authenticated(c) THEN Listed("animals", "render", AnimalListing)
              ELSE Resp("animals", "unauthorized_redirect_login", 0)
  /\ UNCHANGED <<users, categories, animals, session, running, today, inflight>>

animals_new(c, method, form) ==
  /\ running
  /\ IF ~Authenticated(c)
     THEN /\ resp' = Resp("animals_new", "unauthorized_redirect_login", 0)
          /\ UNCHANGED animals
     ELSE IF method = "POST"
     THEN LET v == validate_and_collect_animal_form(form, FALSE, NoText)
          IN  IF v.error # ""
              THEN /\ resp' = Resp("animals_new", "validation_error", 0)
                   /\ UNCHANGED animals
              ELSE IF TagTaken(v.data.tag_current, animals)
              THEN /\ resp' = Resp("animals_new", "conflict", 0)
                   /\ UNCHANGED animals
              ELSE /\ Cardinality(animals) < MaxAnimals
                   /\ animals' = animals \cup
                        {WithEstimate([id |-> NextId(animals)] @@ v.data)}
                   /\ resp' = Resp("animals_new", "success", 0)
     ELSE /\ resp' = Resp("animals_new", "render", 0)
          /\ UNCHANGED animals
  /\ UNCHANGED <<users, categories, session, running, today, inflight>>

\* animals_new on a POST of a logged-in session, step by step: first the
\* validation, the lookup of the tag and the construction of the row ...
animals_new_check(w, c, form) ==
  /\ running /\ Authenticated(c)
  /\ inflight[w].pc = "idle"
  /\ LET v == validate_and_collect_animal_form(form, FALSE, NoText)
     IN  IF v.error # ""
         THEN /\ resp' = Resp("animals_new", "validation_error", 0)
              /\ UNCHANGED inflight
         ELSE IF TagTaken(v.data.tag_current, animals)
         THEN /\ resp' = Resp("animals_new", "conflict", 0)
              /\ UNCHANGED inflight
         ELSE /\ inflight' = [inflight EXCEPT ![w] =
                                [op |-> "animals_new", pc |-> "checked", seen |-> FALSE,
                                 data |-> <<WithEstimate([id |-> 0] @@ v.data)>>]]
              /\ UNCHANGED resp
  /\ UNCHANGED <<users, categories, animals, session, running, today>>

\* ... then db.session.add(a); db.session.commit().  The INSERT violates
\* UNIQUE(animal.tag_current) when a row holds the tag by now; animals_new
\* has no handler for the IntegrityError, which leaves the view function.
animals_new_commit(w) ==
  /\ running
  /\ inflight[w].op = "animals_new" /\ inflight[w].pc = "checked"
  /\ IF TagTaken(inflight[w].data[1].tag_current, animals)
     THEN /\ resp' = Resp("animals_new", "unhandled_fault", 0)
          /\ UNCHANGED animals
     ELSE /\ Cardinality(animals) < MaxAnimals
          /\ animals' = animals \cup {[inflight[w].data[1] EXCEPT !.id = NextId(animals)]}
          /\ resp' = Resp("animals_new", "success", 0)
  /\ inflight' = [inflight EXCEPT ![w] = Idle]
  /\ UNCHANGED <<users, categories, session, running, today>>

animals_edit(c, animal_id, method, form) ==
  /\ running
  /\ IF ~Authenticated(c)
     THEN /\ resp' = Resp("animals_edit", "unauthorized_redirect_login", animal_id)
          /\ UNCHANGED animals
     ELSE IF ~\E a \in animals : a.id = animal_id
     THEN /\ resp' = Resp("animals_edit", "not_found", animal_id)
          /\ UNCHANGED animals
     ELSE IF method = "POST"
     THEN LET a == CHOOSE x \in animals : x.id = animal_id
              v == validate_and_collect_animal_form(form, TRUE, a.category)
          IN  IF v.error # ""
              THEN /\ resp' = Resp("animals_edit", "validation_error", animal_id)
                   /\ UNCHANGED animals
              ELSE IF TagTaken(v.data.tag_current, animals \ {a})
              THEN /\ resp' = Resp("animals_edit", "conflict", animal_id)
                   /\ UNCHANGED animals
              ELSE /\ animals' = (animals \ {a})
                                   \cup {WithEstimate([id |-> a.id] @@ v.data)}
                   /\ resp' = Resp("animals_edit", "success", animal_id)
     ELSE /\ resp' = Resp("animals_edit", "render", animal_id)
          /\ UNCHANGED animals
  /\ UNCHANGED <<users, categories, session, running, today, inflight>>

animals_delete(c, animal_id) ==
  /\ running
  /\ IF ~Authenticated(c)
     THEN /\ resp' = Resp("animals_delete", "unauthorized_redirect_login", animal_id)
          /\ UNCHANGED animals
     ELSE IF ~require_admin(c)
     THEN /\ resp' = Resp("animals_delete", "forbidden_redirect", animal_id)
          /\ UNCHANGED animals
     ELSE IF ~\E a \in animals : a.id = animal_id
     THEN /\ resp' = Resp("animals_delete", "not_found", animal_id)
          /\ UNCHANGED animals
     ELSE /\ animals' = {a \in animals : a.id # animal_id}
          /\ resp' = Resp("animals_delete", "success", animal_id)
  /\ UNCHANGED <<users, categories, session, running, today, inflight>>

----------------------------------------------------------------------------
(* Users (admin only) *)

list_users(c) ==
  /\ running
  /\ resp' = IF ~Authenticated(c) THEN Resp("list_users", "unauthorized_redirect_login", 0)
              ELSE IF ~require_admin(c) THEN Resp("list_users", "forbidden_redirect", 0)
              ELSE Listed("list_users", "render", UserListing)
  /\ UNCHANGED <<users, categories, animals, session, running, today, inflight>>

new_user(c, method, raw_email, raw_password, is_admin) ==
  /\ running
  /\ IF ~Authenticated(c)
     THEN /\ resp' = Resp("new_user", "unauthorized_redirect_login", 0)
          /\ UNCHANGED users
     ELSE IF ~require_admin(c)
     THEN /\ resp' = Resp("new_user", "forbidden_redirect", 0)
          /\ UNCHANGED users
     ELSE IF method = "POST"
     THEN LET email == Lower(Strip(raw_email))
          IN  IF email = NoText \/ raw_password = ""
              THEN /\ resp' = Resp("new_user", "validation_error", 0)
                   /\ UNCHANGED users
              ELSE IF UsersByEmail(users, email) # {}
              THEN /\ resp' = Resp("new_user", "conflict", 0)
                   /\ UNCHANGED users
              ELSE /\ Cardinality(users) < MaxUsers
                   /\ users' = users \cup
                        {set_password([id |-> NextId(users), email |-> email,
                                       password_hash |-> NoHash, is_admin |-> is_admin,
                                       is_active_flag |-> TRUE], raw_password)}
                   /\ resp' = Resp("new_user", "success", 0)
     ELSE /\ resp' = Resp("new_user", "render", 0)
          /\ UNCHANGED users
  /\ UNCHANGED <<categories, animals, session, running, today, inflight>>

edit_user(c, user_id, method, raw_email, is_admin, is_active, pw) ==
  /\ running
  /\ IF ~Authenticated(c)
     THEN /\ resp' = Resp("edit_user", "unauthorized_redirect_login", user_id)
          /\ UNCHANGED users
     ELSE IF ~require_admin(c)
     THEN /\ resp' = Resp("edit_user", "forbidden_redirect", user_id)
          /\ UNCHANGED users
     ELSE IF ~\E u \in users : u.id = user_id
     THEN /\ resp' = Resp("edit_user", "not_found", user_id)
          /\ UNCHANGED users
     ELSE IF method = "POST"
     THEN LET email == Lower(Strip(raw_email))
              u == CHOOSE x \in users : x.id = user_id
              edited == [u EXCEPT !.email = email, !.is_admin = is_admin,
                                  !.is_active_flag = is_active]
          IN  IF email = NoText
              THEN /\ resp' = Resp("edit_user", "validation_error", user_id)
                   /\ UNCHANGED users
              ELSE IF \E o \in UsersByEmail(users, email) : o.id # u.id
              THEN /\ resp' = Resp("edit_user", "conflict", user_id)
                   /\ UNCHANGED users
              ELSE /\ users' = (users \ {u})
                                \cup {IF pw # "" THEN set_password(edited, pw) ELSE edited}
                   /\ resp' = Resp("edit_user", "success", user_id)
     ELSE /\ resp' = Resp("edit_user", "render", user_id)
          /\ UNCHANGED users
  /\ UNCHANGED <<categories, animals, session, running, today, inflight>>

----------------------------------------------------------------------------
(* Request inputs *)

EmailInputs == { <<>>, <<" ", "A", " ">>, ADMIN_LOCAL }

PasswordInputs == {"", "p"}

LoginPasswords == {"p", "q"}

Vaca == SEED_CATEGORIES[1]

EmptyForm ==
  [tag_current |-> NoText, weight |-> NoText, est_weight_today |-> NoText,
   weigh_date |-> NoText, category |-> NoText, breed |-> NoText]

Form(tag, category) == [EmptyForm EXCEPT !.tag_current = tag, !.category = category]

\* Spec: the bootstrap, authentication and user-management handlers on
\* every user form of the inputs above
Next ==
  \/ startup
  \/ \E c \in Clients : index(c)
  \/ \E c \in Clients : setup_admin(c, "GET", NoText, "")
  \/ \E c \in Clients, e \in EmailInputs, p \in PasswordInputs : setup_admin(c, "POST", e, p)
  \/ \E c \in Clients : login(c, "GET", NoText, "")
  \/ \E c \in Clients, e \in EmailInputs, p \in LoginPasswords : login(c, "POST", e, p)
  \/ \E c \in Clients : logout(c)
  \/ \E c \in Clients : menu(c)
  \/ \E c \in Clients : list_users(c)
  \/ \E c \in Clients : new_user(c, "GET", NoText, "", FALSE)
  \/ \E c \in Clients, e \in EmailInputs, p \in PasswordInputs, adm \in BOOLEAN :
       new_user(c, "POST", e, p, adm)
  \/ \E c \in Clients, id \in 1..MaxUsers : edit_user(c, id, "GET", NoText, FALSE, FALSE, "")
  \/ \E c \in Clients, id \in 1..MaxUsers, e \in EmailInputs, adm \in BOOLEAN,
        act \in BOOLEAN, p \in PasswordInputs :
       edit_user(c, id, "POST", e, adm, act, p)

Spec == Init /\ [][Next]_vars

\* SpecAccess: every handler, for one administrator (a), one ordinary user
\* (b) and one form per table
EmailA == <<" ", "A", " ">>

EmailB == <<"b", "\t">>

NameX == <<"X">>

Tag7 == <<"7">>

\* the admin-only requests of client c
AdminOnlyRequest(c) ==
  \/ categories_view(c, "GET", NoText, NoText)
  \/ categories_view(c, "POST", NameX, NoText)
  \/ category_toggle(c, 1)
  \/ category_edit(c, 1, "POST", NameX, <<"1">>)
  \/ list_users(c)
  \/ new_user(c, "POST", EmailB, "p", FALSE)
  \/ \E id \in 1..MaxUsers, adm \in BOOLEAN : edit_user(c, id, "POST", EmailA, adm, TRUE, "")
  \/ animals_delete(c, 1)

NextAccess ==
  \/ startup
  \/ \E c \in Clients : index(c)
  \/ \E c \in Clients : setup_admin(c, "POST", EmailA, "p")
  \/ \E c \in Clients, e \in {EmailA, EmailB} : login(c, "POST", e, "p")
  \/ \E c \in Clients : logout(c)
  \/ \E c \in Clients : menu(c)
  \/ \E c \in Clients : AdminOnlyRequest(c)
  \/ \E c \in Clients : animals_list(c)
  \/ \E c \in Clients : animals_new(c, "POST", Form(Tag7, NoText))
  \/ \E c \in Clients : animals_edit(c, 1, "POST", Form(Tag7, Vaca))

SpecAccess == Init /\ [][NextAccess]_vars

\* SpecTags: one administrator and the animal handlers, on forms that
\* differ in how the tag is typed
TagInputs ==
  { <<>>, <<"7">>, <<" ", "7", "\t">>, <<"7", " ", "8">>, <<"7", " ", " ", "8">>,
    <<"7", "\t", "8">>, <<"7", "x">>, <<"8">> }

TagForms == { Form(tg, ct) : tg \in TagInputs, ct \in {NoText, Vaca, <<"Z">>} }

NextTags ==
  \/ \E c \in Clients : setup_admin(c, "POST", EmailA, "p")
  \/ \E c \in Clients : login(c, "POST", EmailA, "p")
  \/ \E c \in Clients, f \in TagForms : animals_new(c, "POST", f)
  \/ \E c \in Clients, id \in 1..MaxAnimals, f \in TagForms : animals_edit(c, id, "POST", f)
  \/ \E c \in Clients, id \in 1..MaxAnimals : animals_delete(c, id)

SpecTags == Init /\ [][NextTags]_vars

\* SpecData: one administrator, the category handlers and the animal
\* handlers on forms that differ in the category
NameY == <<"Y">>

CategoryInputs == { NoText, Vaca, <<" ">> \o Vaca, NameY, <<"Z">> }

DataForms == { Form(tg, ct) : tg \in {Tag7, <<" ", "8">>}, ct \in CategoryInputs }

NextData ==
  \/ \E c \in Clients : setup_admin(c, "POST", EmailA, "p")
  \/ \E c \in Clients : login(c, "POST", EmailA, "p")
  \/ \E c \in Clients : categories_view(c, "POST", NameY, NoText)
  \/ \E c \in Clients, id \in 1..MaxCategories : category_toggle(c, id)
  \/ \E c \in Clients, id \in 1..MaxCategories, n \in {NameY, Vaca} :
       category_edit(c, id, "POST", n, <<"1">>)
  \/ \E c \in Clients, f \in DataForms : animals_new(c, "POST", f)
  \/ \E c \in Clients, id \in 1..MaxAnimals, f \in DataForms : animals_edit(c, id, "POST", f)
  \/ \E c \in Clients, id \in 1..MaxAnimals : animals_delete(c, id)

SpecData == Init /\ [][NextData]_vars

\* SpecWrites: one administrator and the create / edit handlers of the three
\* tables, on forms that are valid, invalid, or duplicates of a stored row
LongName == [i \in 1..(MaxNameLen + 1) |-> "n"]

WriteEmails == { <<" ">>, EmailA, EmailB }

WriteNames == { <<" ">>, Vaca, <<" ">> \o NameY, LongName }

WriteForms ==
  { Form(tg, ct) : tg \in {Tag7, <<" ", "8">>, <<"7", "x">>}, ct \in {NoText, <<"Z">>} }
    \cup { [Form(Tag7, NoText) EXCEPT !.weigh_date = <<"3", "1", "/", "0", "2", "/", "2", "0">>],
           [Form(Tag7, NoText) EXCEPT !.breed = <<"x">>] }

NextWrites ==
  \/ startup
  \/ \E c \in Clients : setup_admin(c, "POST", EmailA, "p")
  \/ \E c \in Clients : login(c, "POST", EmailA, "p")
  \/ \E c \in Clients, e \in WriteEmails, p \in PasswordInputs :
       new_user(c, "POST", e, p, FALSE)
  \/ \E c \in Clients, id \in 1..MaxUsers, e \in WriteEmails :
       edit_user(c, id, "POST", e, TRUE, TRUE, "")
  \/ \E c \in Clients, n \in WriteNames, g \in {NoText, <<"9">>} :
       categories_view(c, "POST", n, g)
  \/ \E c \in Clients, id \in 1..MaxCategories, n \in WriteNames, g \in {<<"1">>, <<"x">>} :
       category_edit(c, id, "POST", n, g)
  \/ \E c \in Clients, f \in WriteForms : animals_new(c, "POST", f)
  \/ \E c \in Clients, id \in 1..MaxAnimals, f \in WriteForms : animals_edit(c, id, "POST", f)

SpecWrites == Init /\ [][NextWrites]_vars

\* SpecEstimate: one administrator, one category whose gain and state
\* change, the passing of days, and the animal handlers on forms that
\* differ in weight, weigh_date and est_weight_today
WeightInputs == { NoText, <<"0">>, <<"5">>, <<"1", "2", "3", "4", "5">> }

Day1 == <<"0", "1", "/", "0", "1", "/", "0", "0">>

Day3 == <<"0", "3", "/", "0", "1", "/", "0", "0">>

DateInputs == { NoText, Day1, Day3 }

EstimateInputs == { NoText, <<"x">> }

EstimateForms ==
  { [Form(Tag7, ct) EXCEPT !.weight = w, !.weigh_date = d, !.est_weight_today = e] :
      ct \in {NoText, Vaca}, w \in WeightInputs, d \in DateInputs, e \in EstimateInputs }

NextEstimate ==
  \/ day_passes
  \/ \E c \in Clients : setup_admin(c, "POST", EmailA, "p")
  \/ \E c \in Clients : login(c, "POST", EmailA, "p")
  \/ \E c \in Clients : category_toggle(c, 1)
  \/ \E c \in Clients, g \in {<<"0">>, <<"1">>} : category_edit(c, 1, "POST", Vaca, g)
  \/ \E c \in Clients, f \in EstimateForms : animals_new(c, "POST", f)
  \/ \E c \in Clients, f \in EstimateForms : animals_edit(c, 1, "POST", f)
  \/ \E c \in Clients : animals_delete(c, 1)
  \/ \E c \in Clients : animals_list(c)

SpecEstimate == Init /\ [][NextEstimate]_vars

\* SpecCategories: restarts, one administrator and the category handlers
NextCategories ==
  \/ startup
  \/ \E c \in Clients : setup_admin(c, "POST", EmailA, "p")
  \/ \E c \in Clients : login(c, "POST", EmailA, "p")
  \/ \E c \in Clients, n \in {Vaca, NameX, <<" ">> \o NameY}, g \in {NoText, <<"1">>} :
       categories_view(c, "POST", n, g)
  \/ \E c \in Clients, id \in 1..MaxCategories : category_toggle(c, id)
  \/ \E c \in Clients, id \in 1..MaxCategories, n \in {Vaca, NameX, NameY \o <<" ">>} :
       category_edit(c, id, "POST", n, <<"2">>)

SpecCategories == Init /\ [][NextCategories]_vars

\* SpecStartup: processes that start at the same time on a store that was
\* empty, the setup, a login, and the edit that takes is_admin from a user
NextStartup ==
  \/ \E w \in Workers : startup_query_admin(w)
  \/ \E w \in Workers : startup_insert_admin(w)
  \/ \E w \in Workers : startup_count_categories(w)
  \/ \E w \in Workers : startup_insert_categories(w)
  \/ \E w \in Workers : process_exit(w)
  \/ \E c \in Clients : setup_admin(c, "POST", EmailA, "p")
  \/ \E c \in Clients : login(c, "POST", EmailA, "p")
  \/ \E c \in Clients, id \in 1..MaxUsers : edit_user(c, id, "POST", EmailA, FALSE, TRUE, "")

SpecStartup == InitFresh /\ [][NextStartup]_vars

\* SpecCreate: one administrator and creates of animals whose steps
\* interleave, on tags that are typed differently
NextCreate ==
  \/ \E c \in Clients : setup_admin(c, "POST", EmailA, "p")
  \/ \E c \in Clients : login(c, "POST", EmailA, "p")
  \/ \E w \in Workers, c \in Clients, tg \in {Tag7, <<" ", "7">>, <<"8">>, <<"x">>} :
       animals_new_check(w, c, Form(tg, NoText))
  \/ \E w \in Workers : animals_new_commit(w)
  \/ \E c \in Clients, id \in 1..MaxAnimals : animals_delete(c, id)

SpecCreate == Init /\ [][NextCreate]_vars

\* SpecSetup: restarts, setup submissions and logins with two emails and
\* two passwords, and the user handlers that change flags
NextSetup ==
  \/ startup
  \/ \E c \in Clients, e \in {EmailA, EmailB}, p \in LoginPasswords : setup_admin(c, "POST", e, p)
  \/ \E c \in Clients, e \in {EmailA, EmailB}, p \in LoginPasswords : login(c, "POST", e, p)
  \/ \E c \in Clients : logout(c)
  \/ \E c \in Clients : new_user(c, "POST", EmailB, "p", FALSE)
  \/ \E c \in Clients, id \in 1..MaxUsers, e \in {EmailA, EmailB}, adm \in BOOLEAN,
        act \in BOOLEAN :
       edit_user(c, id, "POST", e, adm, act, "")

SpecSetup == Init /\ [][NextSetup]_vars

----------------------------------------------------------------------------
(* The setup state machine of the specification *)

NO_ADMIN_ROW == Admins(users) = {}

ADMIN_ROW_NO_PASSWORD == Admins(users) # {} /\ FirstAdmin(users).password_hash = NoHash

READY == Admins(users) # {} /\ FirstAdmin(users).password_hash # NoHash

IsBlank(s) == \A i \in 1..Len(s) : s[i] \in Whitespace

\* e is raw without its leading and trailing whitespace, in lower case
IsTrimmedLowercased(raw, e) ==
  /\ e = <<>> \/ (e[1] \notin Whitespace /\ e[Len(e)] \notin Whitespace)
  /\ \E i \in 0..Len(raw) :
       /\ i + Len(e) <= Len(raw)
       /\ \A k \in 1..i : raw[k] \in Whitespace
       /\ \A k \in (i + Len(e) + 1)..Len(raw) : raw[k] \in Whitespace
       /\ \A k \in 1..Len(e) : e[k] = LowerChar(raw[i + k])

----------------------------------------------------------------------------
(* Claims *)

\* C1: a login submission that names a User whose password_hash is empty
\* never starts a session: the session is left as it was and the answer is
\* not a success, whatever the password and the user's flags.
C1_NoHashNeverLogsIn ==
  [][(resp'.op = "login" /\ \E u \in users : u.id = resp'.target /\ u.password_hash = NoHash)
       => (session' = session /\ resp'.outcome # "success")]_vars

\* C1 witness: a login was submitted for an active admin row without a hash
C1_Witness ==
  /\ resp.op = "login"
  /\ \E u \in users : /\ u.id = resp.target /\ u.password_hash = NoHash
                      /\ u.is_active_flag /\ u.is_admin
  /\ \A c \in Clients : session[c] = 0

\* C2 (as stated): after the bootstrap the User table always holds an admin.
C2_AlwaysAnAdmin == Admins(users) # {}

\* C3 (as stated): READY is absorbing, and in READY every request to
\* /setup_admin redirects to login and changes no User row.
C3_ReadyAbsorbing ==
  [][READY => (READY' /\ (resp'.op = "setup_admin"
                            => resp'.outcome = "redirect_login" /\ users' = users))]_vars

\* C4: from ADMIN_ROW_NO_PASSWORD an accepted setup_admin POST leaves the
\* system READY, and the placeholder row, when it is the one configured
\* (it is still there), has the submitted email trimmed and lowercased.
C4_AcceptedSetupReachesReady ==
  [][\A c \in Clients, e \in EmailInputs, p \in PasswordInputs :
       (ADMIN_ROW_NO_PASSWORD /\ setup_admin(c, "POST", e, p) /\ resp'.outcome = "success")
         => /\ READY'
            /\ \A u \in users' : u.id = FirstAdmin(users).id
                                   => IsTrimmedLowercased(e, u.email)]_vars

\* C4 witness: the placeholder was configured from the submission " A "
C4_Witness ==
  /\ resp.op = "setup_admin" /\ resp.outcome = "success" /\ resp.target # 0
  /\ \E u \in users : u.id = resp.target /\ u.email = <<"a">> /\ u.password_hash # NoHash
  /\ READY

\* C5: in ADMIN_ROW_NO_PASSWORD a setup_admin POST whose email is blank or
\* whose password is empty reports a validation error, changes no User row
\* and leaves the system in ADMIN_ROW_NO_PASSWORD.
C5_EmptySetupRejected ==
  [][\A c \in Clients, e \in EmailInputs, p \in PasswordInputs :
       (ADMIN_ROW_NO_PASSWORD /\ setup_admin(c, "POST", e, p) /\ (IsBlank(e) \/ p = ""))
         => /\ resp'.outcome = "validation_error"
            /\ users' = users
            /\ ADMIN_ROW_NO_PASSWORD']_vars

\* C5 witness: a setup submission was refused while the placeholder waits
C5_Witness ==
  /\ resp.op = "setup_admin" /\ resp.outcome = "validation_error"
  /\ ADMIN_ROW_NO_PASSWORD

\* C6 (as stated): while an admin row without a hash is the first admin,
\* every request to a path other than the setup screen is redirected
\* towards it (to the setup screen, or to login, which redirects there) and
\* neither renders a page from the tables nor writes to them.
C6_EveryRequestRedirectedToSetup ==
  [][(ADMIN_ROW_NO_PASSWORD /\ resp'.op \notin {"setup_admin", "startup"})
       => /\ resp'.outcome \in {"redirect_setup_admin", "redirect_login",
                                "unauthorized_redirect_login"}
          /\ UNCHANGED <<users, categories, animals>>]_vars

\* C7: an admin-only request (category create, edit, toggle; user list,
\* create, edit; animal delete) of a session that is not authenticated as
\* a user with is_admin is answered by a redirect and leaves the User,
\* Category and Animal tables unchanged.
C7_NonAdminRefused ==
  [][\A c \in Clients :
       (AdminOnlyRequest(c) /\ ~(Authenticated(c) /\ CurrentUser(c).is_admin))
         => /\ resp'.outcome \in {"forbidden_redirect", "unauthorized_redirect_login"}
            /\ UNCHANGED <<users, categories, animals>>]_vars

\* C7 witness: a logged-in user who is no admin was refused on /categories
C7_Witness ==
  /\ resp.op = "categories" /\ resp.outcome = "forbidden_redirect"
  /\ \E c \in Clients : Authenticated(c) /\ ~CurrentUser(c).is_admin
  /\ Cardinality(categories) = NumSeed

\* the digit groups of a tag, in order
RECURSIVE TagWords(_)
TagWords(s) ==
  IF s = <<>> THEN <<>>
  ELSE IF Head(s) \in Whitespace THEN TagWords(Tail(s))
  ELSE LET n == SetMin({i \in 1..Len(s) : i = Len(s) \/ s[i + 1] \in Whitespace})
       IN  <<SubSeq(s, 1, n)>> \o TagWords(SubSeq(s, n + 1, Len(s)))

\* raw is a well-formed tag text (digits and spaces once trimmed) that
\* normalises to the stored tag
SameTag(raw, tag) ==
  /\ Strip(raw) # <<>>
  /\ \A i \in 1..Len(Strip(raw)) : Strip(raw)[i] \in Digits \cup {" "}
  /\ TagWords(raw) = TagWords(tag)

\* every field of the form other than the tag passes validation
OtherFieldsValid(f, for_edit, current_category) ==
  validate_and_collect_animal_form([f EXCEPT !.tag_current = <<"0">>],
                                   for_edit, current_category).error = ""

\* every field of the form other than the category passes validation
FieldsButCategoryValid(f) ==
  validate_and_collect_animal_form([f EXCEPT !.category = NoText], TRUE, NoText).error = ""

\* C8: no two Animal rows ever share tag_current; a create (of a form whose
\* other fields are valid) whose tag normalises to the tag of an existing
\* animal, and an edit whose tag normalises to the tag of another animal,
\* is answered by the uniqueness conflict and writes nothing.
C8_TagCurrentUnique ==
  [][/\ \A a, b \in animals' : a.tag_current = b.tag_current => a = b
     /\ resp'.op = "animals_new" =>
          \A c \in Clients, f \in TagForms :
            (/\ Authenticated(c)
             /\ \E b \in animals : SameTag(f.tag_current, b.tag_current)
             /\ OtherFieldsValid(f, FALSE, NoText)
             /\ animals_new(c, "POST", f))
              => (resp'.outcome = "conflict" /\ animals' = animals)
     /\ resp'.op = "animals_edit" =>
          \A c \in Clients, f \in TagForms, a \in animals :
            (/\ Authenticated(c) /\ a.id = resp'.target
             /\ \E b \in animals : b.id # a.id /\ SameTag(f.tag_current, b.tag_current)
             /\ OtherFieldsValid(f, TRUE, a.category)
             /\ animals_edit(c, a.id, "POST", f))
              => (resp'.outcome = "conflict" /\ animals' = animals)]_vars

\* C8 witness: with two animals stored, a write was refused for its tag
C8_Witness ==
  /\ resp.outcome = "conflict" /\ resp.op \in {"animals_new", "animals_edit"}
  /\ Cardinality(animals) = 2
  /\ \E a \in animals : a.tag_current = <<"7", " ", "8">>

\* C9: a category toggle changes no Animal row, and an edit of an animal
\* whose category names a deactivated Category row, resubmitting that
\* category (the other fields valid, the tag free), is accepted and keeps
\* the category.
C9_ToggleKeepsAnimalsEditable ==
  [][/\ resp'.op = "category_toggle" => animals' = animals
     /\ resp'.op = "animals_edit" =>
          \A c \in Clients, f \in DataForms, a \in animals :
            (/\ Authenticated(c) /\ a.id = resp'.target
             /\ a.category # NoText /\ Strip(f.category) = a.category
             /\ \E k \in categories : k.name = a.category /\ ~k.is_active
             /\ FieldsButCategoryValid(f)
             /\ ~\E b \in animals : b.id # a.id /\ SameTag(f.tag_current, b.tag_current)
             /\ animals_edit(c, a.id, "POST", f))
              => /\ resp'.outcome = "success"
                 /\ \E x \in animals' : x.id = a.id /\ x.category = a.category]_vars

\* C9 witness: an animal was edited and keeps a category that is inactive
C9_Witness ==
  /\ resp.op = "animals_edit" /\ resp.outcome = "success"
  /\ \E a \in animals : /\ a.id = resp.target /\ a.category # NoText
                        /\ \E k \in categories : k.name = a.category /\ ~k.is_active

\* C10 (as stated): after any category operations, an edit that resubmits
\* the animal's stored category (the other fields valid, the tag free) is
\* accepted and keeps it, whether or not that name is still a Category.
C10_StoredCategoryAlwaysAccepted ==
  [][resp'.op = "animals_edit" =>
       \A c \in Clients, f \in DataForms, a \in animals :
         (/\ Authenticated(c) /\ a.id = resp'.target
          /\ a.category # NoText /\ Strip(f.category) = a.category
          /\ FieldsButCategoryValid(f)
          /\ ~\E b \in animals : b.id # a.id /\ SameTag(f.tag_current, b.tag_current)
          /\ animals_edit(c, a.id, "POST", f))
           => /\ resp'.outcome = "success"
              /\ \E x \in animals' : x.id = a.id /\ x.category = a.category]_vars

\* the answer is an error and no table was written
FailedWithoutWrite ==
  /\ resp'.outcome \in {"validation_error", "conflict"}
  /\ UNCHANGED <<users, categories, animals>>

\* the submitted gain is no number, or a number outside 0.0 .. 3.0
GainRejected(raw_gain) ==
  LET g == ParseGain(CommaToDot(Strip(raw_gain)))
  IN  g = <<>> \/ g[1] < 0 \/ g[1] > 30

\* the name is missing, too long, or the name of one of `others`
NameRejected(raw_name, others) ==
  \/ IsBlank(raw_name)
  \/ Len(Strip(raw_name)) > 30
  \/ \E k \in others : k.name = Strip(raw_name)

\* the animal form fails validation, or its tag is the tag of one of `others`
AnimalFormRejected(f, for_edit, current_category, others) ==
  \/ validate_and_collect_animal_form(f, for_edit, current_category).error # ""
  \/ \E b \in others : SameTag(f.tag_current, b.tag_current)

\* C11: a create or an edit of a User, a Category or an Animal by a session
\* allowed to make it, whose form fails validation or names the email, the
\* category name or the tag of another row of the table (active or not),
\* reports an error and leaves the three tables as they were.
C11_FailedWriteWritesNothing ==
  [][/\ resp'.op = "new_user" =>
          \A c \in Clients, e \in WriteEmails, p \in PasswordInputs :
            (/\ require_admin(c)
             /\ IsBlank(e) \/ p = "" \/ \E u \in users : IsTrimmedLowercased(e, u.email)
             /\ new_user(c, "POST", e, p, FALSE))
              => FailedWithoutWrite
     /\ resp'.op = "edit_user" =>
          \A c \in Clients, e \in WriteEmails, u \in users :
            (/\ require_admin(c) /\ u.id = resp'.target
             /\ IsBlank(e) \/ \E o \in users : o.id # u.id /\ IsTrimmedLowercased(e, o.email)
             /\ edit_user(c, u.id, "POST", e, TRUE, TRUE, ""))
              => FailedWithoutWrite
     /\ resp'.op = "categories" =>
          \A c \in Clients, n \in WriteNames, g \in {NoText, <<"9">>} :
            (/\ require_admin(c)
             /\ NameRejected(n, categories) \/ (g # NoText /\ GainRejected(g))
             /\ categories_view(c, "POST", n, g))
              => FailedWithoutWrite
     /\ resp'.op = "category_edit" =>
          \A c \in Clients, n \in WriteNames, g \in {<<"1">>, <<"x">>}, k \in categories :
            (/\ require_admin(c) /\ k.id = resp'.target
             /\ NameRejected(n, categories \ {k}) \/ GainRejected(g)
             /\ category_edit(c, k.id, "POST", n, g))
              => FailedWithoutWrite
     /\ resp'.op = "animals_new" =>
          \A c \in Clients, f \in WriteForms :
            (/\ Authenticated(c)
             /\ AnimalFormRejected(f, FALSE, NoText, animals)
             /\ animals_new(c, "POST", f))
              => FailedWithoutWrite
     /\ resp'.op = "animals_edit" =>
          \A c \in Clients, f \in WriteForms, a \in animals :
            (/\ Authenticated(c) /\ a.id = resp'.target
             /\ AnimalFormRejected(f, TRUE, a.category, animals \ {a})
             /\ animals_edit(c, a.id, "POST", f))
              => FailedWithoutWrite]_vars

\* C11 witness: with two rows in every table, an edit of a user was refused
\* for an email that another user holds
C11_Witness ==
  /\ resp.op = "edit_user" /\ resp.outcome = "conflict"
  /\ Cardinality(users) = 2 /\ Cardinality(categories) = 2 /\ Cardinality(animals) = 2

\* the text is not empty and is not 1-4 digits with an optional single
\* fractional digit
MalformedWeight(raw) == Strip(raw) # <<>> /\ ~WEIGHT_RE(Strip(raw))

\* C12 (as stated): an animal create or edit whose weight or
\* est_weight_today is non-empty but malformed is answered by a validation
\* error and writes nothing.
C12_MalformedWeightRejected ==
  [][/\ resp'.op = "animals_new" =>
          \A c \in Clients, f \in EstimateForms :
            (/\ Authenticated(c)
             /\ MalformedWeight(f.weight) \/ MalformedWeight(f.est_weight_today)
             /\ animals_new(c, "POST", f))
              => (resp'.outcome = "validation_error" /\ animals' = animals)
     /\ resp'.op = "animals_edit" =>
          \A c \in Clients, f \in EstimateForms :
            (/\ Authenticated(c) /\ \E a \in animals : a.id = 1
             /\ MalformedWeight(f.weight) \/ MalformedWeight(f.est_weight_today)
             /\ animals_edit(c, 1, "POST", f))
              => (resp'.outcome = "validation_error" /\ animals' = animals)]_vars

\* the weights and dates the validators produce from the form inputs
ParsedWeights == { parse_weight_1d(w) : w \in WeightInputs } \ { <<>> }

ParsedDates == { parse_date_ddmmyy(d) : d \in DateInputs } \ { <<>> }

\* a row with the two columns compute_estimated_weight reads
Weighed(w, d) == [weight |-> w, weigh_date |-> d]

\* max(0, today - weigh_date) on day `day`
DaysElapsed(day, d) == IF day > d[1] THEN day - d[1] ELSE 0

\* C13 (as stated): for every weight the validator produces and every
\* positive gain rate, the estimate exists, does not decrease when a day
\* passes, and is the weight itself while weigh_date is today or later.
C13_EstimateMonotonic ==
  [][\A w \in ParsedWeights, d \in ParsedDates, g \in {6, 10} :
       LET before == compute_estimated_weight(Weighed(w, d), g)
           after == compute_estimated_weight(Weighed(w, d), g)'
       IN  /\ before # <<>> /\ after # <<>>
           /\ today' >= today => after[1] >= before[1]
           /\ d[1] >= today => before = w]_vars

\* C14 (as stated): there is no estimate exactly when weight or weigh_date
\* is absent; for every weight the validator produces, 0 included, and
\* every date, the estimate is weight + max(0, today - weigh_date) * gain.
C14_EstimateIffWeightAndDate ==
  \A w \in ParsedWeights \cup {<<>>}, d \in ParsedDates \cup {<<>>}, g \in {0, 6, 10} :
    compute_estimated_weight(Weighed(w, d), g) =
      IF w = <<>> \/ d = <<>> THEN <<>>
      ELSE <<w[1] + DaysElapsed(today, d) * g>>

\* the gain rate of the specification: the category's own when it exists
\* and is active, the default otherwise
GainRate(cat_name) ==
  IF \E k \in categories : k.name = cat_name /\ k.is_active
  THEN (CHOOSE k \in categories : k.name = cat_name /\ k.is_active).daily_gain_kg
  ELSE DEFAULT_DAILY_GAIN

\* the row was given the estimate computed with the specification's rate
EstimatedAtGainRate(x) ==
  x.est_weight_today = <<x.weight[1] + DaysElapsed(today, x.weigh_date) * GainRate(x.category)>>

\* C15 (as stated): the estimate a create or an edit computes (none was
\* submitted) uses the daily_gain_kg of the animal's category only when
\* that Category exists and is active, and 0.6 otherwise.
C15_GainOnlyOfActiveCategory ==
  [][/\ resp'.op = "animals_new" /\ resp'.outcome = "success" =>
          \A x \in animals' \ animals :
            (x.weight # <<>> /\ x.weight # <<0>> /\ x.weigh_date # <<>>)
              => EstimatedAtGainRate(x)
     /\ resp'.op = "animals_edit" /\ resp'.outcome = "success" =>
          \A x \in animals' :
            (x.weight # <<>> /\ x.weight # <<0>> /\ x.weigh_date # <<>>)
              => EstimatedAtGainRate(x)]_vars

\* C16: whatever the restarts, category creates, edits and toggles, no two
\* Category rows, active or not, have the same name, and a step never
\* removes a Category row: every id stays.
C16_CategoryNamesUnique ==
  /\ [](\A j, k \in categories : j.name = k.name => j = k)
  /\ [][{k.id : k \in categories} \subseteq {k.id : k \in categories'}]_vars

\* C16 witness: a rename to the name of an inactive category was refused
C16_Witness ==
  /\ resp.op = "category_edit" /\ resp.outcome = "conflict"
  /\ Cardinality(categories) = 2
  /\ \E k \in categories : k.id # resp.target /\ ~k.is_active

\* the names of the categories that are active
ActiveNames == {k.name : k \in {j \in categories : j.is_active}}

\* C17: the category a successful create stores is null or the name of a
\* Category active at that moment; the category a successful edit stores
\* is null, the name of an active Category, or the value the animal had
\* before the edit.
C17_CategoryValidatedAtWrite ==
  [][/\ (resp'.op = "animals_new" /\ resp'.outcome = "success") =>
          \A x \in animals' \ animals : x.category \in {NoText} \cup ActiveNames
     /\ (resp'.op = "animals_edit" /\ resp'.outcome = "success") =>
          \A x \in animals', a \in animals :
            (x.id = resp'.target /\ a.id = x.id)
              => x.category \in {NoText, a.category} \cup ActiveNames]_vars

\* C17 witness: an edit that asked for an inactive category, not the
\* animal's own, was refused, and the animal has no category
C17_Witness ==
  /\ resp.op = "animals_edit" /\ resp.outcome = "validation_error"
  /\ \E a \in animals : a.id = resp.target /\ a.category = NoText
  /\ \E k \in categories : ~k.is_active
  /\ \E b \in animals : b.category # NoText /\ b.category \notin ActiveNames

\* the row of `table` with the given id
RowOf(table, id) == CHOOSE r \in table : r.id = id

\* C18 (as stated): a rendered list of animals is in descending id, of
\* users in ascending id, and of categories in ascending name, whatever
\* the is_active flags.
C18_ListOrder ==
  \A i, j \in 1..Len(resp.rows) :
    i < j =>
      /\ resp.op = "animals" => resp.rows[i] > resp.rows[j]
      /\ resp.op = "list_users" => resp.rows[i] < resp.rows[j]
      /\ resp.op = "categories" =>
            TextBefore(RowOf(categories, resp.rows[i]).name,
                       RowOf(categories, resp.rows[j]).name)

\* C19: in ADMIN_ROW_NO_PASSWORD a setup_admin POST (email and password
\* given) whose email is that of a User row other than the placeholder
\* promotes that row and deletes the placeholder: the placeholder is gone,
\* there is one user less, the named user is an admin and no admin without
\* a password hash remains.
C19_SetupPromotesExistingUser ==
  [][resp'.op = "setup_admin" =>
       \A c \in Clients, e \in EmailInputs, p \in PasswordInputs, u \in users :
         (/\ ADMIN_ROW_NO_PASSWORD /\ p # ""
          /\ u.id # FirstAdmin(users).id
          /\ u.email # NoText /\ IsTrimmedLowercased(e, u.email)
          /\ setup_admin(c, "POST", e, p))
           => /\ resp'.outcome = "success"
              /\ ~\E x \in users' : x.id = FirstAdmin(users).id
              /\ Cardinality(users') = Cardinality(users) - 1
              /\ \E x \in users' : x.id = u.id /\ x.is_admin
              /\ ~\E x \in users' : x.is_admin /\ x.password_hash = NoHash]_vars

\* C19 witness: the setup was accepted, the placeholder it found (id 2) is
\* gone and the older row is the admin
C19_Witness ==
  /\ resp.op = "setup_admin" /\ resp.outcome = "success" /\ resp.target = 2
  /\ ~\E x \in users : x.id = 2
  /\ \E x \in users : x.id = 1 /\ x.is_admin /\ x.password_hash # NoHash

\* a User that can authenticate as an administrator
UsableAdmin(u) == u.is_admin /\ u.is_active_flag /\ u.password_hash # NoHash

\* C20 (as stated): whenever setup is not required (READY) some User is an
\* admin, is active and has a password hash.
C20_UsableAdminInReady == READY => \E u \in users : UsableAdmin(u)

\* the admin rows without a password hash
Placeholders == {u \in users : u.is_admin /\ u.password_hash = NoHash}

\* C21 (as stated): the startup check-and-create inserts the placeholder
\* admin exactly when the store has no admin, the store never holds two
\* placeholder admins however the steps of two starting processes
\* interleave, and no startup ends in a fault.
C21_ConcurrentStartup ==
  /\ [](Cardinality(Placeholders) <= 1)
  /\ [](\A w \in Workers : inflight[w].pc # "crashed")
  /\ [][\A w \in Workers :
          (startup_insert_admin(w) /\ inflight'[w].pc = "admin_done")
            => /\ Admins(users') # {}
               /\ Admins(users) # {} => users' = users
               /\ Admins(users) = {} => Cardinality(Placeholders') = 1]_vars

\* C22 (as stated): when creates of animals interleave, no two Animal rows
\* have the same tag_current, the tag of a create that reaches its commit
\* is the tag of exactly one row afterwards, and the create that loses is
\* answered by the uniqueness conflict, not by a fault.
C22_ConcurrentCreate ==
  /\ [](\A a, b \in animals : a.tag_current = b.tag_current => a = b)
  /\ [][\A w \in Workers :
          animals_new_commit(w)
            => /\ resp'.outcome \in {"success", "conflict"}
               /\ \E x \in animals' : x.tag_current = inflight[w].data[1].tag_current]_vars

\* C23 (as stated): no form of SpecEstimate supplies a well-formed
\* estimate, so every row was saved without one; the animal list shows, for
\* every row with a weight and a weigh_date, the estimate of today: weight
\* + max(0, today - weigh_date) * the gain of its category today.
C23_ShownEstimateTracksDate ==
  (resp.op = "animals" /\ resp.outcome = "render") =>
    \A i \in 1..Len(resp.rows) :
      LET a == RowOf(animals, resp.rows[i])
      IN  (a.weight # <<>> /\ a.weigh_date # <<>>)
            => ShownEstimate(a) =
                 <<a.weight[1] + DaysElapsed(today, a.weigh_date) * GainRate(a.category)>>

\* C24: a setup_admin submission changes the password hash of no User that
\* has one; a row it promotes gets the submitted password only if it had
\* no hash; and every row that is neither the one the email names nor the
\* admin row setup found keeps its email, password hash and is_active flag.
C24_SetupKeepsExistingHash ==
  [][resp'.op = "setup_admin" =>
       \A c \in Clients, e \in {EmailA, EmailB}, p \in LoginPasswords :
         setup_admin(c, "POST", e, p) =>
           \A u \in users, x \in users' :
             x.id = u.id =>
               /\ u.password_hash # NoHash => x.password_hash = u.password_hash
               /\ (u.password_hash = NoHash /\ x.password_hash # NoHash)
                    => x.password_hash = generate_password_hash(p)
               /\ (~IsTrimmedLowercased(e, u.email) /\ u.id # SetupAdminId)
                    => /\ x.email = u.email
                       /\ x.password_hash = u.password_hash
                       /\ x.is_active_flag = u.is_active_flag]_vars

\* C24 witness: with no admin row and no placeholder, setup was accepted
\* by promoting the only user, and another submission could be told apart
\* by its password (the user logs in with "p")
C24_Witness ==
  /\ resp.op = "setup_admin" /\ resp.outcome = "success" /\ resp.target = 0
  /\ Cardinality(users) = 1
  /\ \E u \in users : u.is_admin /\ check_password(u, "p")

====
